---- MODULE Spec2Model ----
(***************************************************************************)
(* A model of teetool's Model (src/teetool/model.py) and GaussianProcess   *)
(* (src/teetool/gaussianprocess.py): construction from an ensemble and a   *)
(* settings map, and the memoised grid queries of a constructed model.     *)
(*                                                                         *)
(* Numbers.  Trajectory parameters x are exact rationals [n, d] (the       *)
(* normalisation divides).  Grid coordinates, cell centres and variances   *)
(* are small integers.  Log-density values are tagged records so that NaN, *)
(* -inf and +inf are values of their own.                                  *)
(*                                                                         *)
(* Arrays.  A numpy array is [shape |-> <<n1,..,nr>>, val |-> <<...>>]     *)
(* with val in row-major (C) order; None is NoneArr.                       *)
(***************************************************************************)
EXTENDS Integers, Sequences, FiniteSets, TLC

VARIABLES
    cluster_data,   \* the caller's ensemble list, as the caller sees it
    settings,       \* the caller's settings map
    outcome,        \* construction: [pc, exc]
    ndim,           \* self._ndim
    mu_y,           \* self._mu_y   (flat, dimension-major)
    sig_y,          \* self._sig_y
    cc,             \* self._cc     (cell means)
    cA,             \* self._cA     (cell covariances)
    list_tube,      \* self._list_tube
    list_logp,      \* self._list_logp
    logLc,          \* helpers.gauss_logLc on this model, per query point
    ret,            \* what the last public call returned or raised
    observed,       \* whether ret keeps the arguments and the result of a call
    thr,            \* concurrent callers: per thread, its call and position
    em,             \* the estimator at work: its object, locals and position
    queried         \* when tracked: the keys queried with success since clear()

vars == <<cluster_data, settings, outcome, ndim, mu_y, sig_y, cc, cA,
          list_tube, list_logp, logLc, ret, observed, thr, em, queried>>

model_vars == <<ndim, mu_y, sig_y, cc, cA>>

(***************************************************************************)
(* Bounds                                                                  *)
(***************************************************************************)
MaxX == 2          \* trajectory parameters are drawn from 0..MaxX
MaxTraj == 2       \* an ensemble holds 1..MaxTraj trajectories
MaxGaus == 3       \* ngaus ranges over 2..MaxGaus
MaxCache == 2      \* a cache holds at most MaxCache entries (guard of a miss)
MaxN == 2          \* isInside_pnts is asked about 1..MaxN points

(***************************************************************************)
(* Generic helpers                                                         *)
(***************************************************************************)
Range(s) == {s[i] : i \in 1..Len(s)}

RECURSIVE Prod(_)
Prod(s) == IF s = <<>> THEN 1 ELSE Head(s) * Prod(Tail(s))

Abs(n) == IF n < 0 THEN -n ELSE n

RECURSIVE GCD(_, _)
GCD(a, b) == IF b = 0 THEN a ELSE GCD(b, a % b)

IsPrefix(s, t) == Len(s) <= Len(t) /\ SubSeq(t, 1, Len(s)) = s

(***************************************************************************)
(* Exact rationals; d = 0 encodes the float results of a division by zero  *)
(* (0/0 = nan, x/0 = +-inf).                                               *)
(***************************************************************************)
Rat(n, d) ==
    IF d = 0 THEN [n |-> IF n > 0 THEN 1 ELSE IF n < 0 THEN -1 ELSE 0, d |-> 0]
    ELSE LET g == GCD(Abs(n), Abs(d))
             s == IF d < 0 THEN -1 ELSE 1
         IN  [n |-> s * (n \div g), d |-> s * (d \div g)]

RInt(k) == [n |-> k, d |-> 1]
RSub(a, b) == Rat(a.n * b.d - b.n * a.d, a.d * b.d)
RDiv(a, b) == Rat(a.n * b.d, a.d * b.n)
RLess(a, b) == a.n * b.d < b.n * a.d

(***************************************************************************)
(* Python values of the settings map                                       *)
(***************************************************************************)
PyStr(s) == [t |-> "str", s |-> s, n |-> 0]
PyInt(n) == [t |-> "int", s |-> "", n |-> n]
PyFloat(n) == [t |-> "float", s |-> "", n |-> n]
Absent == [t |-> "absent", s |-> "", n |-> 0]

NoExc == [type |-> "", msg |-> ""]
Exc(type, msg) == [type |-> type, msg |-> msg]

(***************************************************************************)
(* Construction: Model.__init__                                            *)
(***************************************************************************)

\* Model.__init__, the checks on the settings map; NoExc when they pass.
CheckSettings_SkipNbasisRange(st) ==
    IF "model_type" \notin DOMAIN st
    THEN Exc("ValueError", "settings has no model_type")
    ELSE IF st.model_type.t # "str" THEN Exc("TypeError", "expected string")
    ELSE IF "ngaus" \notin DOMAIN st THEN Exc("ValueError", "settings has no ngaus")
    ELSE IF st.ngaus.t # "int" THEN Exc("TypeError", "expected int")
    ELSE IF st.model_type.s \in {"ML", "EM"}
    THEN IF "basis_type" \notin DOMAIN st
         THEN Exc("ValueError", "settings has no basis_type")
         ELSE IF "nbasis" \notin DOMAIN st
         THEN Exc("ValueError", "settings has no nbasis")
         ELSE NoExc
    ELSE NoExc

CheckSettings(st) ==
    IF "model_type" \notin DOMAIN st
    THEN Exc("ValueError", "settings has no model_type")
    ELSE IF st.model_type.t # "str" THEN Exc("TypeError", "expected string")
    ELSE IF "ngaus" \notin DOMAIN st THEN Exc("ValueError", "settings has no ngaus")
    ELSE IF st.ngaus.t # "int" THEN Exc("TypeError", "expected int")
    ELSE IF st.model_type.s \in {"ML", "EM"}
    THEN IF "basis_type" \notin DOMAIN st
         THEN Exc("ValueError", "settings has no basis_type")
         ELSE IF "nbasis" \notin DOMAIN st
         THEN Exc("ValueError", "settings has no nbasis")
         ELSE IF st.nbasis.n < 2
         THEN Exc("ValueError", "nbasis should be larger than 2")
         ELSE NoExc
    ELSE NoExc

\* helpers.getDimension: the number of columns of a trajectory's Y.
getDimension(cd) == Len(cd[1].Y[1])

\* Model._getMinMax: the ensemble-wide smallest and largest x.
_getMinMax(cd) ==
    LET xs == UNION {Range(cd[i].x) : i \in 1..Len(cd)}
    IN  [xmin |-> CHOOSE a \in xs : \A b \in xs : ~RLess(b, a),
         xmax |-> CHOOSE a \in xs : \A b \in xs : ~RLess(a, b)]

\* Model._getNorm: (x - xmin) / (xmax - xmin), element by element.
_getNorm(x, mm) ==
    [i \in 1..Len(x) |-> RDiv(RSub(x[i], mm.xmin), RSub(mm.xmax, mm.xmin))]

\* Model._normalise_data: overwrites every entry of the list it is given with
\* (normalised x, Y) and returns that same list.
_normalise_data(cd) ==
    LET mm == _getMinMax(cd)
    IN  [i \in 1..Len(cd) |-> [x |-> _getNorm(cd[i].x, mm), Y |-> cd[i].Y]]

\* helpers.get_cluster_data_outline: per dimension, (min, max) of Y.
get_cluster_data_outline(cd) ==
    LET nd == getDimension(cd)
        col(d) == UNION {{cd[i].Y[k][d] : k \in 1..Len(cd[i].Y)} : i \in 1..Len(cd)}
    IN  [j \in 1..(2 * nd) |->
            LET vs == col((j + 1) \div 2)
            IN  IF j % 2 = 1 THEN CHOOSE a \in vs : \A b \in vs : a <= b
                ELSE CHOOSE a \in vs : \A b \in vs : a >= b]

\* GaussianProcess.__init__
GaussianProcess(cd, ngaus) ==
    [cluster_data |-> cd,
     outline |-> get_cluster_data_outline(cd),
     ngaus |-> ngaus,
     ndim |-> getDimension(cd)]

\* helpers.nearest_spd: a symmetric positive-definite matrix is its own
\* nearest one; the cells of this model are built from such matrices only.
nearest_spd(A) == A

\* GaussianProcess._getMuSigma / Model._getMuSigma (the two bodies are the
\* same text): cell npoint (0-based) of a flat joint Gaussian.
GP_getMuSigma(D, mu, sig, npoint, ngaus) ==
    IF npoint < 0 \/ npoint >= ngaus
    THEN [exc |-> Exc("ValueError", "not in [0, ngaus]"), c |-> <<>>, A |-> <<>>]
    ELSE [exc |-> NoExc,
          c |-> [dr \in 1..D |-> mu[npoint + (dr - 1) * ngaus + 1]],
          A |-> [dr \in 1..D |-> [dc \in 1..D |->
                    sig[npoint + (dr - 1) * ngaus + 1][npoint + (dc - 1) * ngaus + 1]]]]

\* _getMuSigma reading the flat vectors cell-major (index npoint*D + d).
_getMuSigma_CellMajor(D, mu, sig, npoint, ngaus) ==
    IF npoint < 0 \/ npoint >= ngaus
    THEN [exc |-> Exc("ValueError", "not in [0, ngaus]"), c |-> <<>>, A |-> <<>>]
    ELSE [exc |-> NoExc,
          c |-> [dr \in 1..D |-> mu[npoint * D + dr]],
          A |-> [dr \in 1..D |-> [dc \in 1..D |->
                    sig[npoint * D + dr][npoint * D + dc]]]]

_getMuSigma(D, mu, sig, npoint, ngaus) ==
    IF npoint < 0 \/ npoint >= ngaus
    THEN [exc |-> Exc("ValueError", "not in [0, ngaus]"), c |-> <<>>, A |-> <<>>]
    ELSE [exc |-> NoExc,
          c |-> [dr \in 1..D |-> mu[npoint + (dr - 1) * ngaus + 1]],
          A |-> [dr \in 1..D |-> [dc \in 1..D |->
                    sig[npoint + (dr - 1) * ngaus + 1][npoint + (dc - 1) * ngaus + 1]]]]

\* GaussianProcess._getGMMCells
GP_getGMMCells(D, mu, sig, ngaus) ==
    [cc |-> [m \in 1..ngaus |-> GP_getMuSigma(D, mu, sig, m - 1, ngaus).c],
     cA |-> [m \in 1..ngaus |-> nearest_spd(GP_getMuSigma(D, mu, sig, m - 1, ngaus).A)]]

\* Model._getGMMCells
_getGMMCells(D, mu, sig, ngaus) ==
    [cc |-> [m \in 1..ngaus |-> _getMuSigma(D, mu, sig, m - 1, ngaus).c],
     cA |-> [m \in 1..ngaus |-> nearest_spd(_getMuSigma(D, mu, sig, m - 1, ngaus).A)]]

\* The joint Gaussian an estimator arrives at.  The arithmetic of the three
\* estimators (interpolation, basis regression, EM) is not modelled here: what
\* the caller consumes is a mean of ngaus*ndim entries and a square covariance
\* of that size.  The stand-in has its cell means on a line along the first
\* dimension (cell m at 2+m) and unit variances.
EstimatedGaussian(ngaus, nd) ==
    [mu |-> [i \in 1..(ngaus * nd) |-> IF i <= ngaus THEN 1 + i ELSE 0],
     sig |-> [i \in 1..(ngaus * nd) |-> [j \in 1..(ngaus * nd) |->
                IF i = j THEN 1 ELSE 0]]]

\* GaussianProcess.model_by_resampling: returns (mu_y, sig_y, cc, cA).
model_by_resampling(gp) ==
    LET g == EstimatedGaussian(gp.ngaus, gp.ndim)
        cells == GP_getGMMCells(gp.ndim, g.mu, g.sig, gp.ngaus)
    IN  <<g.mu, g.sig, cells.cc, cells.cA>>

\* GaussianProcess.model_by_ml: returns (mu_y, sig_y, cc, cA).
model_by_ml(gp, type_basis, nbasis) ==
    LET g == EstimatedGaussian(gp.ngaus, gp.ndim)
        cells == GP_getGMMCells(gp.ndim, g.mu, g.sig, gp.ngaus)
    IN  <<g.mu, g.sig, cells.cc, cells.cA>>

\* GaussianProcess.model_by_em: returns (mu_y, sig_y, cc, cA).
model_by_em(gp, type_basis, nbasis) ==
    LET g == EstimatedGaussian(gp.ngaus, gp.ndim)
        cells == GP_getGMMCells(gp.ndim, g.mu, g.sig, gp.ngaus)
    IN  <<g.mu, g.sig, cells.cc, cells.cA>>

\* Python's  (a, b) = value : the value must hold exactly two items.
Unpack2(value) ==
    IF Len(value) = 2 THEN NoExc
    ELSE IF Len(value) > 2
    THEN Exc("ValueError", "too many values to unpack (expected 2)")
    ELSE Exc("ValueError", "not enough values to unpack (expected 2)")

\* Model.__init__, whole: what is raised, the caller's list afterwards, and
\* the attributes self holds by then (0 / <<>> for one never assigned).
Model_init(cd, st) ==
    LET bad == CheckSettings(st)
        unset == [exc |-> bad, cluster_data |-> cd, ndim |-> 0, mu_y |-> <<>>,
                  sig_y |-> <<>>, cc |-> <<>>, cA |-> <<>>]
    IN  IF bad # NoExc THEN unset
        ELSE
        LET nd == getDimension(cd)
            norm == _normalise_data(cd)
            gp == GaussianProcess(norm, st.ngaus.n)
            mt == st.model_type.s
            est == IF mt = "resampling" THEN model_by_resampling(gp)
                   ELSE IF mt = "ML" THEN model_by_ml(gp, st.basis_type, st.nbasis.n)
                   ELSE IF mt = "EM" THEN model_by_em(gp, st.basis_type, st.nbasis.n)
                   ELSE <<>>
            reached == [unset EXCEPT !.cluster_data = norm, !.ndim = nd]
        IN  IF mt \notin {"resampling", "ML", "EM"}
            THEN [reached EXCEPT !.exc = Exc("NotImplementedError", "not available")]
            ELSE IF Unpack2(est) # NoExc
            THEN [reached EXCEPT !.exc = Unpack2(est)]
            ELSE LET cells == _getGMMCells(nd, est[1], est[2], st.ngaus.n)
                 IN  [reached EXCEPT !.mu_y = est[1], !.sig_y = est[2],
                                     !.cc = cells.cc, !.cA = cells.cA]

\* Model.getMean: the mean as rows [x, y, z] (z = 0 for a 2-D model).
getMean(nd, mu) ==
    LET npts == Len(mu) \div nd
    IN  [m \in 1..npts |->
            <<mu[m], mu[m + npts], IF nd = 3 THEN mu[m + 2 * npts] ELSE 0>>]

(***************************************************************************)
(* Inputs of a construction                                                *)
(***************************************************************************)

\* Strictly increasing parameter sequences of two samples within 0..MaxX.
XSeqs == {<<RInt(p[1]), RInt(p[2])>> :
            p \in {q \in (0..MaxX) \X (0..MaxX) : q[1] < q[2]}}

\* The observations of a trajectory: first column x itself, the others 0.
YOf(x, nd) == [i \in 1..Len(x) |-> [d \in 1..nd |-> IF d = 1 THEN x[i].n ELSE 0]]

Trajectories(nd) == {[x |-> x, Y |-> YOf(x, nd)] : x \in XSeqs}

Ensembles ==
    UNION {UNION {[1..k -> Trajectories(nd)] : k \in 1..MaxTraj} : nd \in {2, 3}}

SettingsChoices ==
    [model_type : {Absent, PyStr("resampling"), PyStr("ML"), PyStr("EM"),
                   PyStr("spline"), PyInt(1)},
     ngaus : {Absent, PyFloat(2)} \cup {PyInt(k) : k \in 2..MaxGaus},
     basis_type : {Absent, PyStr("gaussian")},
     nbasis : {Absent, PyInt(1), PyInt(2)}]

\* A settings map holds the keys that were given a value.
SettingsOf(ch) == [k \in {k \in DOMAIN ch : ch[k] # Absent} |-> ch[k]]

SettingsSet == {SettingsOf(ch) : ch \in SettingsChoices}

\* The history of keys is kept only where a claim reads it.
NotTracked == [on |-> FALSE, tube |-> {}, logp |-> {}]
Tracked == [on |-> TRUE, tube |-> {}, logp |-> {}]

Idle == [op |-> "none"]

InitConstruct ==
    /\ cluster_data \in Ensembles
    /\ settings \in SettingsSet
    /\ outcome = [pc |-> "new", exc |-> NoExc, given |-> cluster_data]
    /\ ndim = 0
    /\ mu_y = <<>>
    /\ sig_y = <<>>
    /\ cc = <<>>
    /\ cA = <<>>
    /\ list_tube = <<>>
    /\ list_logp = <<>>
    /\ logLc = <<>>
    /\ ret = Idle
    /\ observed = TRUE
    /\ thr = <<>>
    /\ queried = NotTracked
    /\ em = <<>>

\* Model(cluster_data, settings)
Construct ==
    /\ outcome.pc = "new"
    /\ LET r == Model_init(cluster_data, settings)
       IN  /\ cluster_data' = r.cluster_data
           /\ outcome' = [outcome EXCEPT
                            !.pc = IF r.exc = NoExc THEN "constructed" ELSE "raised",
                            !.exc = r.exc]
           /\ ndim' = r.ndim
           /\ mu_y' = r.mu_y
           /\ sig_y' = r.sig_y
           /\ cc' = r.cc
           /\ cA' = r.cA
    /\ UNCHANGED <<settings, list_tube, list_logp, logLc, ret, observed, thr, em,
                   queried>>

NextConstruct == Construct

SpecConstruct == InitConstruct /\ [][NextConstruct]_vars

(***************************************************************************)
(* Claims about construction                                               *)
(***************************************************************************)
EstimatorNames == {"resampling", "ML", "EM"}

\* The settings C1 calls valid.
ValidSettings(st) ==
    /\ {"model_type", "ngaus"} \subseteq DOMAIN st
    /\ st.model_type.t = "str"
    /\ st.model_type.s \in EstimatorNames
    /\ st.ngaus.t = "int"
    /\ st.ngaus.n >= 2
    /\ st.model_type.s \in {"ML", "EM"} =>
          /\ {"basis_type", "nbasis"} \subseteq DOMAIN st
          /\ st.nbasis.n >= 2

\* The settings C2 lists as rejected.
BadSettings(st) ==
    \/ "model_type" \notin DOMAIN st
    \/ "ngaus" \notin DOMAIN st
    \/ st.model_type.t # "str"
    \/ st.ngaus.t # "int"
    \/ /\ st.model_type.s \in {"ML", "EM"}
       /\ \/ "basis_type" \notin DOMAIN st
          \/ "nbasis" \notin DOMAIN st
          \/ st.nbasis.n < 2
    \/ st.model_type.s \notin EstimatorNames

\* What the settings checks and the estimator dispatch say when they reject.
RejectionMessages ==
    {"settings has no model_type", "expected string", "settings has no ngaus",
     "expected int", "settings has no basis_type", "settings has no nbasis",
     "nbasis should be larger than 2", "not available"}

\* C1: for every ensemble and every valid settings map, construction
\* completes without raising and getMean() returns exactly ngaus points.
C1_ConstructsAndMeanHasNgausPoints ==
    (outcome.pc # "new" /\ ValidSettings(settings)) =>
        /\ outcome.pc = "constructed"
        /\ Len(getMean(ndim, mu_y)) = settings.ngaus.n

\* C2: construction of a model from settings that lack model_type or ngaus,
\* mistype them, lack basis_type or nbasis or give nbasis < 2 for ML/EM, or
\* name an unknown model_type ends in an error raised by the rejecting check
\* itself, and yields no model.
C2_BadSettingsRejected ==
    (outcome.pc # "new" /\ BadSettings(settings)) =>
        /\ outcome.pc = "raised"
        /\ outcome.exc.type \in {"ValueError", "TypeError", "NotImplementedError"}
        /\ outcome.exc.msg \in RejectionMessages
        /\ mu_y = <<>> /\ cc = <<>>

C2_Witness ==
    /\ outcome.pc = "raised"
    /\ BadSettings(settings)
    /\ "nbasis" \in DOMAIN settings
    /\ outcome.exc.msg = "nbasis should be larger than 2"

\* C3: construction never modifies the caller's ensemble: once the call has
\* returned or raised, the list holds the x and Y it held before the call.
C3_EnsembleUntouched ==
    outcome.pc # "new" => cluster_data = outcome.given

(***************************************************************************)
(* numpy arrays                                                            *)
(***************************************************************************)
NoneArr == [shape |-> <<>>, val |-> <<>>]
IsNone(a) == a = NoneArr

Arr(shape, val) == [shape |-> shape, val |-> val]

\* Position (1-based, row-major) of the 1-based index tuple idx.
Flat(s, idx) ==
    IF Len(s) = 1 THEN idx[1]
    ELSE IF Len(s) = 2 THEN (idx[1] - 1) * s[2] + idx[2]
    ELSE ((idx[1] - 1) * s[2] + (idx[2] - 1)) * s[3] + idx[3]

\* The index tuple at position n.
Unflat(s, n) ==
    IF Len(s) = 1 THEN <<n>>
    ELSE IF Len(s) = 2 THEN <<((n - 1) \div s[2]) + 1, ((n - 1) % s[2]) + 1>>
    ELSE <<((n - 1) \div (s[2] * s[3])) + 1,
           (((n - 1) \div s[3]) % s[2]) + 1,
           ((n - 1) % s[3]) + 1>>

Indices(s) == {Unflat(s, n) : n \in 1..Prod(s)}

At(a, idx) == a.val[Flat(a.shape, idx)]

\* a.shape with 1s put in front up to rank r (numpy aligns trailing axes).
PadShape(s, r) ==
    [k \in 1..r |-> IF k <= r - Len(s) THEN 1 ELSE s[k - (r - Len(s))]]

Max2(a, b) == IF a >= b THEN a ELSE b

\* np.all(a == b).  None == None is True; an array against None compares
\* element-wise to all-False; two arrays are broadcast against each other, an
\* axis of length 1 being repeated.  (Shapes that cannot be broadcast compare
\* as not equal; every grid drawn here has axes of length 1 or 2, so the case
\* does not occur.)
np_all_eq(a, b) ==
    IF IsNone(a) /\ IsNone(b) THEN TRUE
    ELSE IF IsNone(a) \/ IsNone(b) THEN FALSE
    ELSE
    LET r == Max2(Len(a.shape), Len(b.shape))
        sa == PadShape(a.shape, r)
        sb == PadShape(b.shape, r)
        clip(s, idx) == [d \in 1..r |-> IF s[d] = 1 THEN 1 ELSE idx[d]]
    IN  IF r = 0 THEN a.val = b.val
        ELSE IF \E d \in 1..r : sa[d] # sb[d] /\ sa[d] # 1 /\ sb[d] # 1 THEN FALSE
        ELSE \A idx \in Indices([d \in 1..r |-> Max2(sa[d], sb[d])]) :
                a.val[Flat(sa, clip(sa, idx))] = b.val[Flat(sb, clip(sb, idx))]

\* ndarray.squeeze(): every axis of length 1 is dropped.
squeeze(a) == Arr(SelectSeq(a.shape, LAMBDA n : n # 1), a.val)

\* ndarray.transpose(): the axes reversed (rank 2), nothing below rank 2.
transpose(a) ==
    IF Len(a.shape) < 2 THEN a
    ELSE LET s == <<a.shape[2], a.shape[1]>>
         IN  Arr(s, [n \in 1..Prod(s) |->
                        At(a, <<Unflat(s, n)[2], Unflat(s, n)[1]>>)])

\* np.any(a, axis=1)
np_any_axis1(a) ==
    IF Len(a.shape) < 2
    THEN [exc |-> Exc("AxisError", "axis 1 is out of bounds"), value |-> NoneArr]
    ELSE [exc |-> NoExc,
          value |-> Arr(<<a.shape[1]>>,
                        [i \in 1..a.shape[1] |->
                            \E j \in 1..a.shape[2] : At(a, <<i, j>>)])]

\* A structured grid array as np.mgrid lays it out: axis d of the grid varies
\* along dimension d of the array.
Mesh(axes, d) ==
    LET s == [k \in 1..Len(axes) |-> Len(axes[k])]
    IN  Arr(s, [n \in 1..Prod(s) |-> axes[d][Unflat(s, n)[d]]])

(***************************************************************************)
(* Log-density values                                                      *)
(***************************************************************************)
NaN == [k |-> "nan", v |-> 0]
NegInf == [k |-> "-inf", v |-> 0]
PosInf == [k |-> "+inf", v |-> 0]
Fin(v) == [k |-> "fin", v |-> v]

IsNaN(a) == a.k = "nan"
IsFinite(a) == a.k = "fin"

\* a <= b on values that are not NaN
LVLeq(a, b) ==
    \/ a.k = "-inf"
    \/ b.k = "+inf"
    \/ a.k = "fin" /\ b.k = "fin" /\ a.v <= b.v

\* np.nanmin: the smallest value that is not NaN; NaN when there is none.
nanmin(a) ==
    LET vs == {a.val[n] : n \in 1..Len(a.val)} \ {NaN}
    IN  IF vs = {} THEN NaN ELSE CHOOSE m \in vs : \A w \in vs : LVLeq(m, w)

(***************************************************************************)
(* Tube geometry.  The cells of this model have covariance sigma^2 * I, so  *)
(* that the SVD is the identity rotation with every singular value sigma^2. *)
(* The points _getEllipse samples lie on the sphere of radius               *)
(* sdwidth * sigma about the cell mean; a sampled surface is represented by *)
(* that sphere (centre and radii), not by its npoints samples.              *)
(***************************************************************************)
ISqrt(k) == CHOOSE r \in 0..k : r * r = k

Dot(u, v) ==
    u[1] * v[1] + u[2] * v[2] + (IF Len(u) = 3 THEN u[3] * v[3] ELSE 0)

Minus(u, v) == [d \in 1..Len(u) |-> u[d] - v[d]]

\* Model._getEllipse: radii = sdwidth * sqrt(singular values), about c.
_getEllipse(c, A, sdwidth, npoints) ==
    [c |-> c, radii |-> [d \in 1..Len(c) |-> sdwidth * ISqrt(A[d][d])]]

\* Model._get_point_cloud: for each pair of adjacent cells, the rows of both
\* surfaces with duplicates removed; ngaus-1 clouds.
_get_point_cloud(cells_c, cells_A, sdwidth, nsamples) ==
    [i \in 1..(Len(cells_c) - 1) |->
        {_getEllipse(cells_c[i], cells_A[i], sdwidth, nsamples),
         _getEllipse(cells_c[i + 1], cells_A[i + 1], sdwidth, nsamples)}]

\* Whether p is within r of the segment from c1 to c2 (exact, in integers):
\* the convex hull of two spheres of radius r.
WithinOfSegment(p, c1, c2, r) ==
    LET v == Minus(c2, c1)
        w == Minus(p, c1)
        vv == Dot(v, v)
        wv == Dot(w, v)
    IN  IF vv = 0 \/ wv <= 0 THEN Dot(w, w) <= r * r
        ELSE IF wv >= vv THEN Dot(Minus(p, c2), Minus(p, c2)) <= r * r
        ELSE Dot(w, w) * vv - wv * wv <= r * r * vv

\* helpers.in_hull(P, cloud): for each point of P, whether it lies in the
\* convex hull of the cloud.
in_hull(P, Y) ==
    LET e1 == CHOOSE e \in Y : TRUE
        e2 == IF Y = {e1} THEN e1 ELSE CHOOSE e \in Y \ {e1} : TRUE
    IN  [i \in 1..Len(P) |-> WithinOfSegment(P[i], e1.c, e2.c, e1.radii[1])]

\* Model.isInside_pnts: one row of answers per cloud, stacked, squeezed,
\* transposed, and OR-ed along axis 1.
isInside_pnts(cells_c, cells_A, P, sdwidth, nsamples) ==
    LET list_Y == _get_point_cloud(cells_c, cells_A, sdwidth, nsamples)
        list_these_inside == [k \in 1..Len(list_Y) |-> in_hull(P, list_Y[k])]
        shp == <<Len(list_Y), Len(P)>>
        stacked == Arr(shp, [n \in 1..Prod(shp) |->
                        list_these_inside[Unflat(shp, n)[1]][Unflat(shp, n)[2]]])
    IN  np_any_axis1(transpose(squeeze(stacked)))

\* Model._grid2points: the query points of a grid, x outermost, and the grid
\* index of each.  Reads column 0 of xx, row 0 of yy (and zz[0, 0, :]).
_grid2points(nd, xx, yy, zz) ==
    IF nd = 3 /\ IsNone(zz)
    THEN [exc |-> Exc("IndexError", "tuple index out of range"),
          Y_pos |-> <<>>, Y_idx |-> <<>>]
    ELSE
    LET shp == IF nd = 2 THEN <<xx.shape[1], yy.shape[2]>>
               ELSE <<xx.shape[1], yy.shape[2], zz.shape[3]>>
        pos(i) == IF nd = 2 THEN <<At(xx, <<i[1], 1>>), At(yy, <<1, i[2]>>)>>
                  ELSE <<At(xx, <<i[1], 1, 1>>), At(yy, <<1, i[2], 1>>),
                         At(zz, <<1, 1, i[3]>>)>>
    IN  [exc |-> NoExc,
         Y_pos |-> [n \in 1..Prod(shp) |-> pos(Unflat(shp, n))],
         Y_idx |-> [n \in 1..Prod(shp) |-> Unflat(shp, n)]]

\* Model._points2grid: a float grid of zeros, one larger than the largest
\* index per axis, filled with s[i] at Y_idx[i].  kind says what s holds:
\* "bool" values are stored as 0.0 / 1.0.
_points2grid(nd, s, Y_idx, kind) ==
    IF Len(s.shape) = 0
    THEN [exc |-> Exc("IndexError", "too many indices for array"), ss |-> NoneArr]
    ELSE
    LET shp == [d \in 1..nd |->
                   CHOOSE m \in {Y_idx[i][d] : i \in 1..Len(Y_idx)} :
                       \A i \in 1..Len(Y_idx) : Y_idx[i][d] <= m]
        asfloat(v) == IF kind = "bool" THEN (IF v THEN 1 ELSE 0) ELSE v
        zero == IF kind = "bool" THEN 0 ELSE Fin(0)
        at(n) == {i \in 1..Len(Y_idx) : Flat(shp, Y_idx[i]) = n}
    IN  [exc |-> NoExc,
         ss |-> Arr(shp, [n \in 1..Prod(shp) |->
                    IF at(n) = {} THEN zero
                    ELSE asfloat(s.val[CHOOSE i \in at(n) : \A j \in at(n) : j <= i])])]

\* Model._eval_logp: helpers.gauss_logLc at every point, squeezed.
_eval_logp(field, Y_pos) ==
    squeeze(Arr(<<Len(Y_pos)>>, [n \in 1..Len(Y_pos) |-> field[Y_pos[n]]]))

(***************************************************************************)
(* The two memoised grid queries                                           *)
(***************************************************************************)

\* Model.isInside_grid, the loop over self._list_tube: the last entry whose
\* xx, yy, zz and sdwidth all compare equal, if any.
tube_lookup(cache, sdwidth, xx, yy, zz) ==
    LET hits == {i \in 1..Len(cache) :
                    /\ np_all_eq(cache[i].xx, xx)
                    /\ np_all_eq(cache[i].yy, yy)
                    /\ np_all_eq(cache[i].zz, zz)
                    /\ cache[i].sdwidth = sdwidth}
    IN  IF hits = {} THEN [hit |-> FALSE, ss |-> NoneArr]
        ELSE [hit |-> TRUE,
              ss |-> cache[CHOOSE i \in hits : \A j \in hits : j <= i].ss]

\* Model.isInside_grid, "do the calculations".
tube_compute(nd, cells_c, cells_A, sdwidth, xx, yy, zz) ==
    LET g == _grid2points(nd, xx, yy, zz)
    IN  IF g.exc # NoExc THEN [exc |-> g.exc, ss |-> NoneArr]
        ELSE LET s == isInside_pnts(cells_c, cells_A, g.Y_pos, sdwidth, 12)
             IN  IF s.exc # NoExc THEN [exc |-> s.exc, ss |-> NoneArr]
                 ELSE _points2grid(nd, s.value, g.Y_idx, "bool")

\* Model.isInside_grid, whole: what it raises or returns, and the cache after.
isInside_grid(nd, cells_c, cells_A, cache, sdwidth, xx, yy, zz) ==
    IF xx.shape # yy.shape
    THEN [exc |-> Exc("ValueError", "dimensions should equal (use np.mgrid)"),
          ss |-> NoneArr, hit |-> FALSE, list |-> cache]
    ELSE
    LET found == tube_lookup(cache, sdwidth, xx, yy, zz)
        fresh == tube_compute(nd, cells_c, cells_A, sdwidth, xx, yy, zz)
    IN  IF found.hit
        THEN [exc |-> NoExc, ss |-> found.ss, hit |-> TRUE, list |-> cache]
        ELSE IF fresh.exc # NoExc
        THEN [exc |-> fresh.exc, ss |-> NoneArr, hit |-> FALSE, list |-> cache]
        ELSE [exc |-> NoExc, ss |-> fresh.ss, hit |-> FALSE,
              list |-> Append(cache, [ss |-> fresh.ss, sdwidth |-> sdwidth,
                                      xx |-> xx, yy |-> yy, zz |-> zz])]

\* Model.evalLogLikelihood, the loop over self._list_logp.
logp_lookup(cache, xx, yy, zz) ==
    LET hits == {i \in 1..Len(cache) :
                    /\ np_all_eq(cache[i].xx, xx)
                    /\ np_all_eq(cache[i].yy, yy)
                    /\ np_all_eq(cache[i].zz, zz)}
    IN  IF hits = {} THEN [hit |-> FALSE, ss |-> NoneArr]
        ELSE [hit |-> TRUE,
              ss |-> cache[CHOOSE i \in hits : \A j \in hits : j <= i].ss]

\* Model.evalLogLikelihood, line 556:  ss[np.isnan(ss)] = np.nanmin(ss)
replace_nan(ss) ==
    Arr(ss.shape, [n \in 1..Len(ss.val) |->
                      IF IsNaN(ss.val[n]) THEN nanmin(ss) ELSE ss.val[n]])

\* Model.evalLogLikelihood, "do the calculations".
logp_compute(nd, field, xx, yy, zz) ==
    LET g == _grid2points(nd, xx, yy, zz)
    IN  IF g.exc # NoExc THEN [exc |-> g.exc, ss |-> NoneArr]
        ELSE LET r == _points2grid(nd, _eval_logp(field, g.Y_pos), g.Y_idx, "float")
             IN  IF r.exc # NoExc THEN r
                 ELSE [exc |-> NoExc, ss |-> replace_nan(r.ss)]

\* Model.evalLogLikelihood, whole.
evalLogLikelihood(nd, field, cache, xx, yy, zz) ==
    IF xx.shape # yy.shape
    THEN [exc |-> Exc("ValueError", "dimensions should equal (use np.mgrid)"),
          ss |-> NoneArr, hit |-> FALSE, list |-> cache]
    ELSE
    LET found == logp_lookup(cache, xx, yy, zz)
        fresh == logp_compute(nd, field, xx, yy, zz)
    IN  IF found.hit
        THEN [exc |-> NoExc, ss |-> found.ss, hit |-> TRUE, list |-> cache]
        ELSE IF fresh.exc # NoExc
        THEN [exc |-> fresh.exc, ss |-> NoneArr, hit |-> FALSE, list |-> cache]
        ELSE [exc |-> NoExc, ss |-> fresh.ss, hit |-> FALSE,
              list |-> Append(cache, [ss |-> fresh.ss,
                                      xx |-> xx, yy |-> yy, zz |-> zz])]

(***************************************************************************)
(* The other public operations                                             *)
(***************************************************************************)

\* Model.getOutline, in tenths (sdwidth += 0.1): per dimension the smallest
\* and the largest coordinate over the clouds at that width.
getOutline(nd, cells_c, cells_A, sdwidth) ==
    LET clouds == _get_point_cloud(cells_c, cells_A, 10 * sdwidth + 1, 10)
        es == UNION {clouds[i] : i \in 1..Len(clouds)}
        lo(d) == {10 * e.c[d] - e.radii[d] : e \in es}
        hi(d) == {10 * e.c[d] + e.radii[d] : e \in es}
    IN  [j \in 1..(2 * nd) |->
            IF j % 2 = 1
            THEN CHOOSE a \in lo((j + 1) \div 2) : \A b \in lo((j + 1) \div 2) : a <= b
            ELSE CHOOSE a \in hi(j \div 2) : \A b \in hi(j \div 2) : a >= b]

(***************************************************************************)
(* A constructed model and the inputs of its queries                       *)
(***************************************************************************)
Coords == {0, 1}

PointsOver(nd, cs) == IF nd = 2 THEN cs \X cs ELSE cs \X cs \X cs

Points(nd) == PointsOver(nd, Coords)

LogVals == {NaN, NegInf, PosInf, Fin(-1), Fin(0)}

\* A log-density field with a NaN at the origin and -inf wherever the first
\* two coordinates are both 1.
RoughField(nd) ==
    [p \in Points(nd) |->
        IF p[1] = 0 /\ p[2] = 0 THEN NaN
        ELSE IF p[1] = 1 /\ p[2] = 1 THEN NegInf
        ELSE Fin(0 - Dot(p, p))]

RoughFields == {RoughField(2), RoughField(3)}

AllFields(nd) == [Points(nd) -> LogVals]

\* The axes the callers' grids are meshed from.  <<0, 0>> is an axis of two
\* equal coordinates (np.mgrid[0:0:2j]).
AxisTuples(nd) ==
    IF nd = 2
    THEN {<<X, Y>> : X \in {<<0>>, <<0, 0>>, <<0, 1>>}, Y \in {<<0, 1>>}}
    ELSE {<<X, Y, Z>> : X \in {<<0>>}, Y \in {<<0, 1>>}, Z \in {<<0>>, <<0, 1>>}}

\* The (xx, yy, zz) a caller passes: each array meshed from axes of its own,
\* so that the three need not agree in shape.
GridArgs2 ==
    {Mesh(A, 1) : A \in AxisTuples(2)} \X {Mesh(A, 2) : A \in AxisTuples(2)}
        \X {NoneArr}

GridArgs3 ==
    {Mesh(A, 1) : A \in AxisTuples(3)} \X {Mesh(A, 2) : A \in AxisTuples(3)}
        \X {Mesh(A, 3) : A \in AxisTuples(3)}

GridArgs(nd) == IF nd = 2 THEN GridArgs2 ELSE GridArgs3

SdWidths(nd) == IF nd = 2 THEN {1, 2} ELSE {1}

Ones(nd) == [d \in 1..nd |-> 1]

FieldsFiniteAtOnes(nd) == {f \in AllFields(nd) : f[Ones(nd)] = Fin(-1)}

\* The lists of 1..MaxN points with coordinates in cs.
PointLists(nd, cs) == UNION {[1..k -> PointsOver(nd, cs)] : k \in 1..MaxN}

\* The state Model.__init__ lines 81-93 leave for a joint Gaussian
\* (mu_y, sig_y): the cells, and two empty caches.
InitModel(nds, ngs, fields, obs) ==
    /\ \E nd \in nds, ng \in ngs :
         LET g == EstimatedGaussian(ng, nd)
             cells == _getGMMCells(nd, g.mu, g.sig, ng)
         IN  /\ ndim = nd
             /\ mu_y = g.mu
             /\ sig_y = g.sig
             /\ cc = cells.cc
             /\ cA = cells.cA
             /\ logLc \in {f \in fields : DOMAIN f = Points(nd)}
    /\ list_tube = <<>>
    /\ list_logp = <<>>
    /\ cluster_data = <<>>
    /\ settings = <<>>
    /\ outcome = [pc |-> "constructed", exc |-> NoExc, given |-> <<>>]
    /\ ret = Idle
    /\ observed = obs

\* What ret keeps of a call: all of it, or only which operation it was.
Call(op, sdwidth, xx, yy, zz, P, exc, value, hit) ==
    IF observed
    THEN [op |-> op, sdwidth |-> sdwidth, xx |-> xx, yy |-> yy, zz |-> zz,
          P |-> P, exc |-> exc, value |-> value, hit |-> hit]
    ELSE [op |-> op]

\* model.isInside_grid(sdwidth, xx, yy, zz)
IsInsideGrid ==
    \E sdwidth \in SdWidths(ndim), g \in GridArgs(ndim) :
        LET r == isInside_grid(ndim, cc, cA, list_tube, sdwidth, g[1], g[2], g[3])
        IN  /\ Len(r.list) <= MaxCache
            /\ list_tube' = r.list
            /\ ret' = Call("isInside_grid", sdwidth, g[1], g[2], g[3], <<>>,
                           r.exc, r.ss, r.hit)
            /\ queried' = IF queried.on /\ r.exc = NoExc
                          THEN [queried EXCEPT !.tube = @ \cup
                                  {[sdwidth |-> sdwidth, xx |-> g[1],
                                    yy |-> g[2], zz |-> g[3]]}]
                          ELSE queried
            /\ UNCHANGED <<cluster_data, settings, outcome, model_vars,
                           list_logp, logLc, observed, thr, em>>

\* model.evalLogLikelihood(xx, yy, zz)
EvalLogLikelihood ==
    \E g \in GridArgs(ndim) :
        LET r == evalLogLikelihood(ndim, logLc, list_logp, g[1], g[2], g[3])
        IN  /\ Len(r.list) <= MaxCache
            /\ list_logp' = r.list
            /\ ret' = Call("evalLogLikelihood", 0, g[1], g[2], g[3], <<>>,
                           r.exc, r.ss, r.hit)
            /\ queried' = IF queried.on /\ r.exc = NoExc
                          THEN [queried EXCEPT !.logp = @ \cup
                                  {[xx |-> g[1], yy |-> g[2], zz |-> g[3]]}]
                          ELSE queried
            /\ UNCHANGED <<cluster_data, settings, outcome, model_vars,
                           list_tube, logLc, observed, thr, em>>

\* model.isInside_pnts(P, sdwidth)
IsInsidePnts(cs) ==
    \E sdwidth \in SdWidths(ndim), P \in PointLists(ndim, cs) :
        LET r == isInside_pnts(cc, cA, P, sdwidth, 10)
        IN  /\ ret' = Call("isInside_pnts", sdwidth, NoneArr, NoneArr, NoneArr, P,
                           r.exc, r.value, FALSE)
            /\ UNCHANGED <<cluster_data, settings, outcome, model_vars,
                           list_tube, list_logp, logLc, observed, thr, em,
                           queried>>

\* model.getMean()
GetMean ==
    /\ ret' = Call("getMean", 0, NoneArr, NoneArr, NoneArr, <<>>,
                   NoExc, getMean(ndim, mu_y), FALSE)
    /\ UNCHANGED <<cluster_data, settings, outcome, model_vars,
                   list_tube, list_logp, logLc, observed, thr, em, queried>>

\* getSamples with the sample drawn in place (mu_y += var_y * vecRandom).
GetSamples_InPlace ==
    \E nsamples \in 1..MaxN :
        /\ mu_y' = [i \in 1..Len(mu_y) |-> 0]
        /\ ret' = Call("getSamples", 0, NoneArr, NoneArr, NoneArr, <<>>,
                       NoExc, nsamples, FALSE)
        /\ UNCHANGED <<cluster_data, settings, outcome, ndim, sig_y, cc, cA,
                       list_tube, list_logp, logLc, observed, thr, em,
                       queried>>

\* model.getSamples(nsamples).  The drawn values are not modelled, only how
\* many trajectories come back.  Line 137 makes npoints a float under true
\* division, which np.linspace (line 145) accepts or refuses with a TypeError
\* depending on the numpy installed: both outcomes are allowed.
GetSamples ==
    \E nsamples \in 1..MaxN,
       e \in {NoExc, Exc("TypeError", "float cannot be interpreted as an integer")} :
        /\ ret' = Call("getSamples", 0, NoneArr, NoneArr, NoneArr, <<>>,
                       e, IF e = NoExc THEN nsamples ELSE 0, FALSE)
        /\ UNCHANGED <<cluster_data, settings, outcome, model_vars,
                       list_tube, list_logp, logLc, observed, thr, em,
                       queried>>

\* model.getOutline(sdwidth)
GetOutline ==
    \E sdwidth \in SdWidths(ndim) :
        /\ ret' = Call("getOutline", sdwidth, NoneArr, NoneArr, NoneArr, <<>>,
                       NoExc, getOutline(ndim, cc, cA, sdwidth), FALSE)
        /\ UNCHANGED <<cluster_data, settings, outcome, model_vars,
                       list_tube, list_logp, logLc, observed, thr, em,
                       queried>>

\* model.clear()
Clear_TubeOnly ==
    /\ list_tube' = <<>>
    /\ ret' = Call("clear", 0, NoneArr, NoneArr, NoneArr, <<>>, NoExc, <<>>, FALSE)
    /\ queried' = [queried EXCEPT !.tube = {}, !.logp = {}]
    /\ UNCHANGED <<cluster_data, settings, outcome, model_vars, list_logp,
                   logLc, observed, thr, em>>

Clear ==
    /\ list_tube' = <<>>
    /\ list_logp' = <<>>
    /\ ret' = Call("clear", 0, NoneArr, NoneArr, NoneArr, <<>>, NoExc, <<>>, FALSE)
    /\ queried' = [queried EXCEPT !.tube = {}, !.logp = {}]
    /\ UNCHANGED <<cluster_data, settings, outcome, model_vars, logLc,
                   observed, thr, em>>

\* Sequential use of one model, 2-D or 3-D, with 2 or 3 cells.
Init ==
    /\ InitModel({2, 3}, {2, 3}, RoughFields, FALSE)
    /\ thr = <<>>
    /\ queried = NotTracked
    /\ em = <<>>

Next ==
    \/ IsInsideGrid
    \/ EvalLogLikelihood
    \/ IsInsidePnts({0})
    \/ GetMean
    \/ GetSamples
    \/ GetOutline
    \/ Clear

Spec == Init /\ [][Next]_vars

\* The same, with ret keeping what each call was given and gave back.
InitObserved ==
    /\ InitModel({2, 3}, {2, 3}, RoughFields, TRUE)
    /\ thr = <<>>
    /\ queried = NotTracked
    /\ em = <<>>

SpecObserved == InitObserved /\ [][Next]_vars

\* Log-density queries of one 2-D model, over every field the density helper
\* can produce that is finite at (1, 1).
InitLogp ==
    /\ InitModel({2}, {2}, FieldsFiniteAtOnes(2), TRUE)
    /\ thr = <<>>
    /\ queried = NotTracked
    /\ em = <<>>

NextLogp == EvalLogLikelihood \/ Clear

SpecLogp == InitLogp /\ [][NextLogp]_vars

\* Point queries of one model, over every list of up to MaxN points with
\* coordinates in Coords.
InitPnts ==
    /\ InitModel({2, 3}, 2..MaxGaus, RoughFields, TRUE)
    /\ thr = <<>>
    /\ queried = NotTracked
    /\ em = <<>>

NextPnts == IsInsidePnts(Coords)

SpecPnts == InitPnts /\ [][NextPnts]_vars

(***************************************************************************)
(* Grid queries from several threads.  The class holds no lock; a thread    *)
(* can be switched out between any two statements.  A query is cut at the   *)
(* two places where it touches its cache: after the lookup loop, and before *)
(* the append.                                                             *)
(***************************************************************************)
NThreads == 2

Threads == 1..NThreads

GridOps == {"isInside_grid", "evalLogLikelihood"}

ThreadIdle == [pc |-> "idle"]

ConcGrids ==
    {<<Mesh(A, 1), Mesh(A, 2), NoneArr>> :
        A \in {<<<<0>>, <<0, 1>>>>, <<<<0, 1>>, <<0, 1>>>>}}

CacheOf(op) == IF op = "isInside_grid" THEN list_tube ELSE list_logp

\* Between its lookup and its append.
InFlight(t) == thr[t].pc \in {"computing", "storing"}

InFlightOn(op) == {t \in Threads : InFlight(t) /\ thr[t].op = op}

InitConc ==
    /\ InitModel({2}, {3}, RoughFields, TRUE)
    /\ thr = [t \in Threads |-> ThreadIdle]
    /\ queried = NotTracked
    /\ em = <<>>

\* Lines 409-424 / 529-541: the shape check and the lookup loop.  A hit
\* returns at once; a miss goes on to compute.
ThreadLookup(t) ==
    /\ thr[t].pc = "idle"
    /\ \E op \in GridOps, g \in ConcGrids :
         LET sdwidth == 1
             found == IF op = "isInside_grid"
                      THEN tube_lookup(list_tube, sdwidth, g[1], g[2], g[3])
                      ELSE logp_lookup(list_logp, g[1], g[2], g[3])
         IN  /\ Len(CacheOf(op)) + Cardinality(InFlightOn(op)) < MaxCache
             /\ g[1].shape = g[2].shape
             /\ ~found.hit
             /\ thr' = [thr EXCEPT ![t] =
                          [pc |-> "computing", op |-> op, sdwidth |-> sdwidth,
                           xx |-> g[1], yy |-> g[2], zz |-> g[3]]]
    /\ UNCHANGED <<cluster_data, settings, outcome, model_vars, list_tube,
                   list_logp, logLc, ret, observed, em, queried>>

\* Lines 426-436 / 543-556: the calculation, on the thread's own arrays.
ThreadCompute(t) ==
    /\ thr[t].pc = "computing"
    /\ LET c == thr[t]
           r == IF c.op = "isInside_grid"
                THEN tube_compute(ndim, cc, cA, c.sdwidth, c.xx, c.yy, c.zz)
                ELSE logp_compute(ndim, logLc, c.xx, c.yy, c.zz)
       IN  thr' = [thr EXCEPT ![t] =
                     IF r.exc # NoExc THEN ThreadIdle
                     ELSE [pc |-> "storing", op |-> c.op, sdwidth |-> c.sdwidth,
                           xx |-> c.xx, yy |-> c.yy, zz |-> c.zz, ss |-> r.ss]]
    /\ UNCHANGED <<cluster_data, settings, outcome, model_vars, list_tube,
                   list_logp, logLc, ret, observed, em, queried>>

\* Lines 439 / 559: the append, and the return.
ThreadAppend(t) ==
    /\ thr[t].pc = "storing"
    /\ LET c == thr[t]
       IN  IF c.op = "isInside_grid"
           THEN /\ list_tube' = Append(list_tube,
                        [ss |-> c.ss, sdwidth |-> c.sdwidth,
                         xx |-> c.xx, yy |-> c.yy, zz |-> c.zz])
                /\ UNCHANGED list_logp
           ELSE /\ list_logp' = Append(list_logp,
                        [ss |-> c.ss, xx |-> c.xx, yy |-> c.yy, zz |-> c.zz])
                /\ UNCHANGED list_tube
    /\ thr' = [thr EXCEPT ![t] = ThreadIdle]
    /\ UNCHANGED <<cluster_data, settings, outcome, model_vars, logLc, ret,
                   observed, em, queried>>

NextConc ==
    \E t \in Threads :
        \/ ThreadLookup(t)
        \/ ThreadCompute(t)
        \/ ThreadAppend(t)

SpecConc == InitConc /\ [][NextConc]_vars

(***************************************************************************)
(* Claims about the queries of a constructed model                         *)
(***************************************************************************)
GridCall == ret.op \in GridOps

\* Whether the arrays the last grid call was given all have one shape.
AxesAgree ==
    /\ ret.xx.shape = ret.yy.shape
    /\ ndim = 3 => ~IsNone(ret.zz) /\ ret.zz.shape = ret.xx.shape

\* C4: an isInside_grid call that returns does so with the result stored
\* under exactly its own key: list_tube holds an entry whose xx, yy, zz are
\* the arrays of the call (same shape, same values), whose sdwidth is the
\* call's, and whose result is the one returned.  A stored result is never
\* returned for a grid that differs in a coordinate, in shape or in sdwidth.
C4_TubeReusedOnExactKeyOnly ==
    (ret.op = "isInside_grid" /\ ret.exc = NoExc) =>
        \E i \in 1..Len(list_tube) :
            /\ list_tube[i].xx = ret.xx
            /\ list_tube[i].yy = ret.yy
            /\ list_tube[i].zz = ret.zz
            /\ list_tube[i].sdwidth = ret.sdwidth
            /\ list_tube[i].ss = ret.value

\* C5: an evalLogLikelihood call with grid G that returns, returns the
\* log-density grid computed for G itself, whatever was cached before.
C5_LogpIsOfOwnGrid ==
    (ret.op = "evalLogLikelihood" /\ ret.exc = NoExc) =>
        ret.value = logp_compute(ndim, logLc, ret.xx, ret.yy, ret.zz).ss

\* C6: grid queries running concurrently on one model access each cache as
\* if serialized: no two queries are at once between the lookup and the
\* append on the same cache; and every entry of a cache holds the completely
\* computed result of its own key.
C6_CacheAccessSerialized ==
    /\ \A t1, t2 \in Threads :
          (t1 # t2 /\ InFlight(t1) /\ InFlight(t2)) => thr[t1].op # thr[t2].op
    /\ \A i \in 1..Len(list_logp) :
          list_logp[i].ss =
              logp_compute(ndim, logLc, list_logp[i].xx, list_logp[i].yy,
                           list_logp[i].zz).ss
    /\ \A i \in 1..Len(list_tube) :
          list_tube[i].ss =
              tube_compute(ndim, cc, cA, list_tube[i].sdwidth, list_tube[i].xx,
                           list_tube[i].yy, list_tube[i].zz).ss

\* C7: over any sequence of the seven public operations, clear() leaves both
\* caches empty, and every other operation leaves each cache with all the
\* entries it had, unchanged and in place (it can only append).
C7_EntriesStayUntilClear ==
    [][ /\ ret'.op = "clear" => (list_tube' = <<>> /\ list_logp' = <<>>)
        /\ ret'.op # "clear" => /\ IsPrefix(list_tube, list_tube')
                                /\ IsPrefix(list_logp, list_logp') ]_vars

\* Both caches hold an entry, and the last call was a getOutline, which left
\* them so.
C7_Witness ==
    /\ ret.op = "getOutline"
    /\ Len(list_tube) > 0
    /\ Len(list_logp) > 0

\* C8: the grid a computing evalLogLikelihood call returns (and caches) has,
\* whenever a point of the grid evaluates to a finite value, every finite
\* value kept and every NaN, +inf and -inf replaced by the smallest finite
\* value of the grid: it holds finite values only.
C8_NonFiniteReplacedByMinFinite ==
    (ret.op = "evalLogLikelihood" /\ ret.exc = NoExc /\ ~ret.hit) =>
        LET Y_pos == _grid2points(ndim, ret.xx, ret.yy, ret.zz).Y_pos
            fin == {v \in {logLc[Y_pos[n]] : n \in 1..Len(Y_pos)} : IsFinite(v)}
            least == CHOOSE m \in fin : \A w \in fin : LVLeq(m, w)
        IN  fin # {} =>
              /\ \A n \in 1..Len(Y_pos) :
                    ret.value.val[n] =
                        IF IsFinite(logLc[Y_pos[n]]) THEN logLc[Y_pos[n]] ELSE least
              /\ list_logp[Len(list_logp)].ss = ret.value

\* C9: isInside_pnts on N >= 1 points of a model of ngaus >= 2 cells returns
\* N booleans, the i-th true iff point i is in the hull of at least one of
\* the ngaus-1 clouds; also when ngaus = 2 and when N = 1.
C9_OneBooleanPerPoint ==
    ret.op = "isInside_pnts" =>
        LET clouds == _get_point_cloud(cc, cA, ret.sdwidth, 10)
        IN  /\ ret.exc = NoExc
            /\ ret.value.shape = <<Len(ret.P)>>
            /\ \A i \in 1..Len(ret.P) :
                  ret.value.val[i] =
                      \E k \in 1..Len(clouds) : in_hull(<<ret.P[i]>>, clouds[k])[1]

\* C10: a grid query whose arrays do not all have the same shape (xx against
\* yy; with a 3-D model zz against them too) is refused with an error, and
\* it stores nothing: no cache entry has arrays of differing shapes.
C10_DisagreeingAxesRejected ==
    /\ (GridCall /\ ~AxesAgree) => ret.exc # NoExc
    /\ \A i \in 1..Len(list_tube) :
          /\ list_tube[i].xx.shape = list_tube[i].yy.shape
          /\ ndim = 3 => list_tube[i].zz.shape = list_tube[i].xx.shape
    /\ \A i \in 1..Len(list_logp) :
          /\ list_logp[i].xx.shape = list_logp[i].yy.shape
          /\ ndim = 3 => list_logp[i].zz.shape = list_logp[i].xx.shape

\* C11: no public operation of a constructed model changes its dimension,
\* its joint Gaussian (mu_y, sig_y) or its cells (cc, cA): of the model's
\* state, a step changes at most the two cache lists.
C11_OnlyCachesChange ==
    [][ /\ ndim' = ndim
        /\ mu_y' = mu_y
        /\ sig_y' = sig_y
        /\ cc' = cc
        /\ cA' = cA ]_vars

\* The last call was a getSamples on a model that has answered grid queries,
\* and the model still holds the Gaussian and the cells it was built with.
C11_Witness ==
    /\ ret.op = "getSamples"
    /\ Len(list_tube) > 0
    /\ Len(list_logp) > 0
    /\ mu_y = EstimatedGaussian(Len(cc), ndim).mu
    /\ cc = _getGMMCells(ndim, mu_y, sig_y, Len(cc)).cc

(***************************************************************************)
(* Cells and the flat joint Gaussian.  The estimators hand over the joint   *)
(* Gaussian flat, dimension-major: entry m + d*ngaus of mu_y is dimension d *)
(* of cell m.  Here a model's flat Gaussian is laid out from chosen cells   *)
(* by that convention, and _getMuSigma is asked for each cell back.         *)
(***************************************************************************)
\* The cells to choose from.  The covariances are not symmetric, so that a
\* transposed read shows; cell k differs from cell j in every entry.
CellChoices(nd) ==
    {[c |-> [d \in 1..nd |-> 10 * k + d],
      A |-> [d1 \in 1..nd |-> [d2 \in 1..nd |-> 100 * k + 10 * d1 + d2]]] :
        k \in 0..1}

\* Covariance between different cells: a value no cell holds.
CrossCell == 0 - 1

\* The dimension-major layout of cells cs (means) and As (covariances).
Flatten(nd, cs, As) ==
    LET n == Len(cs)
        cell(i) == ((i - 1) % n) + 1
        dim(i) == ((i - 1) \div n) + 1
    IN  [mu |-> [i \in 1..(n * nd) |-> cs[cell(i)][dim(i)]],
         sig |-> [i \in 1..(n * nd) |-> [j \in 1..(n * nd) |->
                    IF cell(i) = cell(j) THEN As[cell(i)][dim(i)][dim(j)]
                    ELSE CrossCell]]]

InitCells ==
    /\ \E nd \in {2, 3}, ng \in 2..MaxGaus :
         \E cells \in [1..ng -> CellChoices(nd)] :
            LET cs == [m \in 1..ng |-> cells[m].c]
                As == [m \in 1..ng |-> cells[m].A]
            IN  /\ ndim = nd
                /\ cc = cs
                /\ cA = As
                /\ mu_y = Flatten(nd, cs, As).mu
                /\ sig_y = Flatten(nd, cs, As).sig
    /\ logLc = <<>>
    /\ list_tube = <<>>
    /\ list_logp = <<>>
    /\ cluster_data = <<>>
    /\ settings = <<>>
    /\ outcome = [pc |-> "constructed", exc |-> NoExc, given |-> <<>>]
    /\ ret = Idle
    /\ observed = TRUE
    /\ thr = <<>>
    /\ queried = NotTracked
    /\ em = <<>>

\* Model._getMuSigma(mu_y, sig_y, npoint, ngaus), npoint from one below to
\* one above the valid range.
ModelGetMuSigma ==
    \E npoint \in (0 - 1)..Len(cc) :
        LET r == _getMuSigma(ndim, mu_y, sig_y, npoint, Len(cc))
        IN  /\ ret' = [op |-> "Model._getMuSigma", npoint |-> npoint,
                       exc |-> r.exc, c |-> r.c, A |-> r.A]
            /\ UNCHANGED <<cluster_data, settings, outcome, model_vars,
                           list_tube, list_logp, logLc, observed, thr, em,
                           queried>>

\* GaussianProcess._getMuSigma(mu_y, sig_y, npoint, ngaus)
GPGetMuSigma ==
    \E npoint \in (0 - 1)..Len(cc) :
        LET r == GP_getMuSigma(ndim, mu_y, sig_y, npoint, Len(cc))
        IN  /\ ret' = [op |-> "GaussianProcess._getMuSigma", npoint |-> npoint,
                       exc |-> r.exc, c |-> r.c, A |-> r.A]
            /\ UNCHANGED <<cluster_data, settings, outcome, model_vars,
                           list_tube, list_logp, logLc, observed, thr, em,
                           queried>>

NextCells == ModelGetMuSigma \/ GPGetMuSigma

SpecCells == InitCells /\ [][NextCells]_vars

\* C12: asked for cell npoint of the dimension-major layout of cells, both
\* _getMuSigma return that cell's own mean and covariance, entry for entry,
\* when 0 <= npoint < ngaus, and raise an error for any other npoint.
C12_CellsRoundTrip ==
    ret.op \in {"Model._getMuSigma", "GaussianProcess._getMuSigma"} =>
        IF ret.npoint >= 0 /\ ret.npoint < Len(cc)
        THEN /\ ret.exc = NoExc
             /\ ret.c = cc[ret.npoint + 1]
             /\ ret.A = cA[ret.npoint + 1]
        ELSE ret.exc # NoExc

\* The last cell of a 3-D model whose first and last cells differ has been
\* asked for and returned.
C12_Witness ==
    /\ ret.op = "Model._getMuSigma"
    /\ ndim = 3
    /\ ret.npoint = Len(cc) - 1
    /\ ret.exc = NoExc
    /\ cc[1] # cc[Len(cc)]
    /\ ret.c = cc[Len(cc)]

(***************************************************************************)
(* Expectation maximisation: the loop of GaussianProcess.model_by_em.      *)
(* The E- and M-step arithmetic is not modelled.  What an iteration leaves  *)
(* behind is a weight state, known by the iteration that produced it and   *)
(* by the condition number of its sig_w, and the two log-likelihood terms.  *)
(* Log-likelihoods are counted in halves of CONV_LIKELIHOOD (0.5e-3).      *)
(***************************************************************************)
MaxIter == 3

\* Iterations followed per call; above every budget a caller passes.
IterCap == MaxIter + 1

\* CONV_LIKELIHOOD = 1e-3
ConvLikelihood == 2

\* maximum_iterations=2001
DefaultMaxIterations == 2001

\* return 1e4
Sentinel == 20000000

\* float addition
LAdd(a, b) ==
    IF IsNaN(a) \/ IsNaN(b) THEN NaN
    ELSE IF IsFinite(a) /\ IsFinite(b) THEN Fin(a.v + b.v)
    ELSE IF IsFinite(a) THEN b
    ELSE IF IsFinite(b) THEN a
    ELSE IF a = b THEN a
    ELSE NaN

\* GaussianProcess._L_pw: the sentinel when cond(sig_w) > 0 (a comparison
\* with NaN is False), else the computed term.
_L_pw(sig_w, computed) ==
    IF sig_w.cond.k = "+inf" \/ (IsFinite(sig_w.cond) /\ sig_w.cond.v > 0)
    THEN Fin(Sentinel)
    ELSE computed

\* The loop test with the abort on a non-finite log-likelihood left out.
loop_test_NoAbort(loglikelihood_pY, loglikelihood_previous) ==
    IF /\ IsFinite(loglikelihood_pY)
       /\ IsFinite(loglikelihood_previous)
       /\ Abs(loglikelihood_pY.v - loglikelihood_previous.v) < ConvLikelihood
    THEN "converged"
    ELSE "continue"

\* Lines 268-277: which way the iteration ends.  loglikelihood_previous is
\* +inf before the first iteration, and the difference to it is inf.
loop_test(loglikelihood_pY, loglikelihood_previous) ==
    IF IsFinite(loglikelihood_pY)
    THEN IF /\ IsFinite(loglikelihood_previous)
            /\ Abs(loglikelihood_pY.v - loglikelihood_previous.v) < ConvLikelihood
         THEN "converged"
         ELSE "continue"
    ELSE "nonfinite"

\* What an iteration can compute: cond(sig_w), ln p(Y|w), and the prior term
\* _L_pw computes when it does not return the sentinel.
CondVals == {Fin(1), Fin(1000), PosInf, NaN}
PYwVals == {Fin(0), Fin(1), Fin(4), NaN, NegInf}
PwVals == {Fin(0), Fin(7)}

NoIteration ==
    [pY |-> NaN, previous |-> NaN, pw |-> NaN, computed |-> NaN, test |-> "none"]

\* Lines 214-224: the locals on entering the loop; range(0) is left at once.
EMEnter(maximum_iterations) ==
    [pc |-> IF maximum_iterations > 0 THEN "loop" ELSE "predict",
     MAX_ITERATIONS |-> maximum_iterations,
     i_iter |-> 0,
     loglikelihood_previous |-> PosInf,
     w |-> [it |-> 0, cond |-> Fin(1)],
     last |-> NoIteration,
     predicted |-> 0 - 1]

EMIdle == [EMEnter(0) EXCEPT !.pc = "idle"]

InitEMOther ==
    /\ ndim = 2
    /\ mu_y = <<>>
    /\ sig_y = <<>>
    /\ cc = <<>>
    /\ cA = <<>>
    /\ logLc = <<>>
    /\ list_tube = <<>>
    /\ list_logp = <<>>
    /\ cluster_data = <<>>
    /\ outcome = [pc |-> "start", exc |-> NoExc, given |-> <<>>]
    /\ ret = Idle
    /\ observed = TRUE
    /\ thr = <<>>
    /\ queried = NotTracked

\* One pass of the loop body, lines 226-284: E-step, M-step (mu_w and sig_w
\* are replaced), the log-likelihood, the test, and the step of range().
EMIterate ==
    /\ em.pc = "loop"
    /\ em.i_iter < em.MAX_ITERATIONS
    /\ em.i_iter < IterCap
    /\ \E c \in CondVals, pYw \in PYwVals, drawn \in PwVals :
         LET sig_w == [it |-> em.w.it + 1, cond |-> c]
             computed == IF IsNaN(c) THEN NaN ELSE drawn
             pw == _L_pw(sig_w, computed)
             pY == LAdd(pYw, pw)
             test == loop_test(pY, em.loglikelihood_previous)
         IN  em' = [em EXCEPT
                      !.i_iter = @ + 1,
                      !.w = sig_w,
                      !.last = [pY |-> pY, previous |-> em.loglikelihood_previous,
                                pw |-> pw, computed |-> computed, test |-> test],
                      !.loglikelihood_previous = IF test = "continue" THEN pY ELSE @,
                      !.pc = IF test = "continue" /\ em.i_iter + 1 < em.MAX_ITERATIONS
                             THEN "loop" ELSE "predict"]
    /\ UNCHANGED <<cluster_data, settings, outcome, model_vars, list_tube,
                   list_logp, logLc, ret, observed, thr, queried>>

\* Lines 286-298: predict from the current mu_w, sig_w and return.
EMPredict ==
    /\ em.pc = "predict"
    /\ em' = [em EXCEPT !.pc = "returned", !.predicted = em.w.it]
    /\ UNCHANGED <<cluster_data, settings, outcome, model_vars, list_tube,
                   list_logp, logLc, ret, observed, thr, queried>>

\* gp.model_by_em(type_basis, nbasis, maximum_iterations), called directly.
InitEM ==
    /\ InitEMOther
    /\ settings = <<>>
    /\ em \in {EMEnter(k) : k \in 0..MaxIter}

NextEM == EMIterate \/ EMPredict

SpecEM == InitEM /\ [][NextEM]_vars /\ WF_vars(NextEM)

\* Model(cluster_data, settings) with model_type EM and, or not, a
\* maxIterations among the settings.
EMSettings ==
    {SettingsOf([model_type |-> PyStr("EM"), ngaus |-> PyInt(2),
                 basis_type |-> PyStr("gaussian"), nbasis |-> PyInt(2),
                 maxIterations |-> m]) :
        m \in {Absent} \cup {PyInt(k) : k \in 1..MaxIter}}

InitEMSettings ==
    /\ InitEMOther
    /\ settings \in EMSettings
    /\ em = EMIdle

\* Model.__init__ up to line 76:  gp.model_by_em(settings["basis_type"],
\* settings["nbasis"]), so that maximum_iterations takes its default.
ConstructEM ==
    /\ em.pc = "idle"
    /\ CheckSettings(settings) = NoExc
    /\ settings.model_type.s = "EM"
    /\ em' = EMEnter(DefaultMaxIterations)
    /\ UNCHANGED <<cluster_data, settings, outcome, model_vars, list_tube,
                   list_logp, logLc, ret, observed, thr, queried>>

NextEMSettings == ConstructEM \/ EMIterate \/ EMPredict

SpecEMSettings == InitEMSettings /\ [][NextEMSettings]_vars

(***************************************************************************)
(* Claims about the EM loop                                                *)
(***************************************************************************)
\* The last iteration's log-likelihood meets a stopping rule: it is not
\* finite, or it is finite and within CONV_LIKELIHOOD of the one before.
StopMet ==
    \/ ~IsFinite(em.last.pY)
    \/ /\ IsFinite(em.last.previous)
       /\ Abs(em.last.pY.v - em.last.previous.v) < ConvLikelihood

EMLeftLoop == em.pc \in {"predict", "returned"}

C14_SettingsBudgetUsed ==
    em.pc # "idle" =>
        IF "maxIterations" \in DOMAIN settings
        THEN /\ em.MAX_ITERATIONS = settings.maxIterations.n
             /\ em.i_iter <= settings.maxIterations.n
        ELSE em.MAX_ITERATIONS = DefaultMaxIterations

\* C15: when the loop is left at iteration t because the log-likelihood is
\* not finite, the joint Gaussian is predicted from the weight state of
\* iteration t-1 (the initial state when t = 1).
C15_PredictsFromLastFiniteState ==
    (em.pc = "returned" /\ em.i_iter > 0 /\ ~IsFinite(em.last.pY)) =>
        em.predicted = em.i_iter - 1

\* C16: in an iteration whose sig_w is well conditioned (cond = 1, as for the
\* identity) the prior term is the computed one, not the sentinel.
C16_SentinelOnlyWhenIllConditioned ==
    (em.i_iter > 0 /\ em.w.cond = Fin(1)) =>
        /\ em.last.pw = em.last.computed
        /\ em.last.pw # Fin(Sentinel)

(***************************************************************************)
(* Back from the normalised domain: GaussianProcess._norm2real, as the      *)
(* three estimators call it on their result (lines 121, 180, 294).          *)
(***************************************************************************)
\* GaussianProcess._outline2vectors: per flat index, the minimum and the
\* range of its dimension.
_outline2vectors(gp) ==
    LET dim(i) == ((i - 1) \div gp.ngaus) + 1
    IN  [M |-> [i \in 1..(gp.ngaus * gp.ndim) |-> gp.outline[2 * dim(i) - 1]],
         D |-> [i \in 1..(gp.ngaus * gp.ndim) |->
                  gp.outline[2 * dim(i)] - gp.outline[2 * dim(i) - 1]]]

\* GaussianProcess._norm2real:  mu_y * D + M  and  sig_y @ diagflat(D ** 2).
\* The product with a diagonal matrix on the right scales column j by D[j]^2.
_norm2real(gp, mu, sig) ==
    LET v == _outline2vectors(gp)
    IN  [mu |-> [i \in 1..Len(mu) |-> mu[i] * v.D[i] + v.M[i]],
         sig |-> [i \in 1..Len(sig) |-> [j \in 1..Len(sig) |->
                    sig[i][j] * v.D[j] * v.D[j]]]]

Symmetric(A) == \A i, j \in 1..Len(A) : A[i][j] = A[j][i]

\* Deviations from the mean of a normalised trajectory, and the covariance
\* (yn - mu_y)(yn - mu_y)' they give: symmetric, positive semi-definite.
Deviations == [1..4 -> {0 - 1, 0, 1}]

Outer(v) == [i \in 1..Len(v) |-> [j \in 1..Len(v) |-> v[i] * v[j]]]

\* A 2-D estimator of two Gaussians, its outline from 0 to 1..MaxX in each
\* dimension, about to convert its estimate.
InitNorm ==
    /\ \E xmax, ymax \in 1..MaxX :
         em = [outline |-> <<0, xmax, 0, ymax>>, ngaus |-> 2, ndim |-> 2]
    /\ ndim = 2
    /\ mu_y = <<0, 1, 0, 1>>
    /\ sig_y \in {Outer(v) : v \in Deviations}
    /\ cc = <<>>
    /\ cA = <<>>
    /\ logLc = <<>>
    /\ list_tube = <<>>
    /\ list_logp = <<>>
    /\ cluster_data = <<>>
    /\ settings = <<>>
    /\ outcome = [pc |-> "start", exc |-> NoExc, given |-> <<>>]
    /\ ret = Idle
    /\ observed = TRUE
    /\ thr = <<>>
    /\ queried = NotTracked

\* mu_y, sig_y = self._norm2real(mu_y, sig_y); ret keeps the result, mu_y
\* and sig_y what went in.
Norm2Real ==
    /\ ret = Idle
    /\ LET r == _norm2real(em, mu_y, sig_y)
       IN  ret' = [op |-> "_norm2real", mu |-> r.mu, sig |-> r.sig]
    /\ UNCHANGED <<cluster_data, settings, outcome, model_vars, list_tube,
                   list_logp, logLc, observed, thr, em, queried>>

NextNorm == Norm2Real

SpecNorm == InitNorm /\ [][NextNorm]_vars

\* C17: the covariance _norm2real returns is symmetric whenever the
\* covariance it was given is, also when the ranges of the dimensions differ
\* and the covariance has entries between dimensions.
C17_RealCovarianceSymmetric ==
    (ret.op = "_norm2real" /\ Symmetric(sig_y)) => Symmetric(ret.sig)

(***************************************************************************)
(* The caches against the keys queried                                      *)
(***************************************************************************)
\* Grid queries and clear() on one 2-D model of three cells, the keys
\* queried with success being tracked.
InitKeys ==
    /\ InitModel({2}, {3}, RoughFields, FALSE)
    /\ thr = <<>>
    /\ em = <<>>
    /\ queried = Tracked

NextKeys == IsInsideGrid \/ EvalLogLikelihood \/ Clear

SpecKeys == InitKeys /\ [][NextKeys]_vars

TubeKey(e) == [sdwidth |-> e.sdwidth, xx |-> e.xx, yy |-> e.yy, zz |-> e.zz]

LogpKey(e) == [xx |-> e.xx, yy |-> e.yy, zz |-> e.zz]

\* C18: under sequential use neither cache holds two entries with the same
\* key, and each cache has as many entries as distinct keys were queried on
\* it with success since the last clear().
C18_OneEntryPerKeyQueried ==
    /\ \A i, j \in 1..Len(list_tube) :
          i # j => TubeKey(list_tube[i]) # TubeKey(list_tube[j])
    /\ \A i, j \in 1..Len(list_logp) :
          i # j => LogpKey(list_logp[i]) # LogpKey(list_logp[j])
    /\ Len(list_tube) = Cardinality(queried.tube)
    /\ Len(list_logp) = Cardinality(queried.logp)

====
